---- MODULE Spec2Model ----
(***************************************************************************)
(* EC2 instance manager: the translation of provider records               *)
(* (app/services.py, _convert_to_ec2_instance), the read path              *)
(* (list_instances / get_instance and the routes over them) and the        *)
(* lifecycle operations (create / start / stop / terminate), each of which *)
(* is one mutating provider call followed by a re-read.                    *)
(*                                                                         *)
(* Python dicts are functions whose DOMAIN is the set of keys present; an  *)
(* exception is an outcome [kind |-> "raise", ...] that every caller       *)
(* either catches (its except clause) or passes on unchanged.              *)
(***************************************************************************)
EXTENDS Integers, Sequences, FiniteSets, TLC

VARIABLES
    provider,   \* the provider's instances: a sequence of reservations
    calls,      \* every provider call issued so far, in order
    reqs,       \* the in-flight HTTP requests of the lifecycle endpoints
    answer      \* the read path / translator: the answer of the one request

vars == <<provider, calls, reqs, answer>>

\* Python's None
None == "None"

\* no answer yet
NoAnswer == [kind |-> "none"]

----------------------------------------------------------------------------
(* Outcomes of a Python call: a returned value or a raised exception.      *)

Return(v) == [kind |-> "return", value |-> v]

Raise(exc) == [kind |-> "raise", exc |-> exc]

\* fastapi.HTTPException(status_code=...)
HTTPException(status_code) ==
    [kind |-> "raise", exc |-> "HTTPException", status_code |-> status_code]

\* botocore.exceptions.ClientError, the one provider failure the service names
ClientError == Raise("ClientError")

IsReturn(o) == o.kind = "return"

IsRaise(o, exc) == o.kind = "raise" /\ o.exc = exc

----------------------------------------------------------------------------
(* Dicts.                                                                  *)

EmptyDict == [k \in {} |-> k]

\* dict.get(key, default)
Get(d, key, default) == IF key \in DOMAIN d THEN d[key] ELSE default

\* {tag['Key']: tag['Value'] for tag in tag_list}: a later tag with the same
\* key overwrites an earlier one.
TagsDict(tag_list) ==
    [k \in {tag_list[i].Key : i \in DOMAIN tag_list} |->
        LET last == CHOOSE i \in DOMAIN tag_list :
                        /\ tag_list[i].Key = k
                        /\ \A j \in DOMAIN tag_list : tag_list[j].Key = k => j <= i
        IN  tag_list[last].Value]

----------------------------------------------------------------------------
(* EC2Service._convert_to_ec2_instance                                     *)

\* aws_instance['InstanceId'], ['InstanceType'], ['State']['Name'],
\* ['LaunchTime'] are subscripts: a missing key raises KeyError.
RequiredPresent(aws_instance) ==
    /\ "InstanceId" \in DOMAIN aws_instance
    /\ "InstanceType" \in DOMAIN aws_instance
    /\ "State" \in DOMAIN aws_instance
    /\ "Name" \in DOMAIN aws_instance["State"]
    /\ "LaunchTime" \in DOMAIN aws_instance

\* .get(key) with the default left out: None for a missing key
OptionalFieldNoDefault(d, key) == Get(d, key, None)

\* .get(key, ''): an optional address or tag field
OptionalField(d, key) == Get(d, key, "")

convert_to_ec2_instance(aws_instance) ==
    LET tags == TagsDict(Get(aws_instance, "Tags", <<>>))
    IN  IF ~RequiredPresent(aws_instance)
        THEN Raise("KeyError")
        ELSE Return([instance_id   |-> aws_instance["InstanceId"],
                     instance_type |-> aws_instance["InstanceType"],
                     state         |-> aws_instance["State"]["Name"],
                     public_ip     |-> OptionalField(aws_instance, "PublicIpAddress"),
                     private_ip    |-> OptionalField(aws_instance, "PrivateIpAddress"),
                     name          |-> OptionalField(tags, "Name"),
                     environment   |-> OptionalField(tags, "Environment"),
                     launch_time   |-> aws_instance["LaunchTime"]])

----------------------------------------------------------------------------
(* Provider records the translator is exercised on.                        *)

MaxTags == 2

Opt(key, values) == {EmptyDict} \cup {key :> v : v \in values}

TagKeys == {"Name", "Environment", "name", "Owner"}

TagValues == {"", "web"}

Tag == [Key : TagKeys, Value : TagValues]

\* tag lists as the provider holds them: tag keys are unique per instance
TagLists(n) ==
    {ts \in UNION {[1..m -> Tag] : m \in 0..n} :
        \A i, j \in DOMAIN ts : ts[i].Key = ts[j].Key => i = j}

StateDicts == {EmptyDict} \cup {"Name" :> s : s \in {"running", "stopped"}}

RawRecords(tag_lists) ==
    {a @@ b @@ c @@ d @@ e @@ f @@ g :
        a \in Opt("InstanceId", {1}),
        b \in Opt("InstanceType", {"t2.micro"}),
        c \in Opt("State", StateDicts),
        d \in Opt("PublicIpAddress", {"", "54.0.0.1"}),
        e \in Opt("PrivateIpAddress", {"", "10.0.0.1"}),
        f \in Opt("Tags", tag_lists),
        g \in Opt("LaunchTime", {"2024-01-01T00:00:00"})}

Reservation(instances) == [Instances |-> instances]

InitTranslate ==
    /\ provider \in {<<Reservation(<<r>>)>> : r \in RawRecords(TagLists(MaxTags))}
    /\ calls = <<>>
    /\ reqs = <<>>
    /\ answer = NoAnswer

\* one call of the translator on the provider's record
Translate ==
    /\ answer = NoAnswer
    /\ answer' = convert_to_ec2_instance(provider[1].Instances[1])
    /\ UNCHANGED <<provider, calls, reqs>>

NextTranslate == Translate

SpecTranslate == InitTranslate /\ [][NextTranslate]_vars

----------------------------------------------------------------------------
(* The provider client (boto3 EC2 client), as the service calls it.        *)

\* describe_instances(): every reservation; describe_instances(InstanceIds=ids):
\* the reservations that hold a matching instance, each cut down to its
\* matching instances, in the provider's order.
Matches(i, ids) == "InstanceId" \in DOMAIN i /\ i["InstanceId"] \in ids

DescribeInstances(prov, ids) ==
    IF ids = {}
    THEN [Reservations |-> prov]
    ELSE LET cut == [k \in DOMAIN prov |->
                        Reservation(SelectSeq(prov[k].Instances,
                                              LAMBDA i : Matches(i, ids)))]
         IN  [Reservations |-> SelectSeq(cut, LAMBDA r : r.Instances # <<>>)]

----------------------------------------------------------------------------
(* EC2Service: the read path.                                              *)

RECURSIVE Flatten(_)
\* for reservation in response['Reservations']: for instance in
\* reservation['Instances']: the instances in the order the loops visit them
Flatten(reservations) ==
    IF reservations = <<>>
    THEN <<>>
    ELSE Head(reservations).Instances \o Flatten(Tail(reservations))

\* get_instance, taking the first record of the last reservation
EC2Service_get_instance_last(described) ==
    IF IsRaise(described, "ClientError")
    THEN HTTPException(404)
    ELSE LET reservations == described.value.Reservations
         IN  IF reservations = <<>>
             THEN HTTPException(404)
             ELSE convert_to_ec2_instance(
                      reservations[Len(reservations)].Instances[1])

\* EC2Service.get_instance, given the outcome of its describe_instances call.
\* The 404 for no reservation is raised inside the try, and except ClientError
\* does not catch it; nor does it catch the translator's KeyError.
EC2Service_get_instance(described) ==
    IF IsRaise(described, "ClientError")
    THEN HTTPException(404)
    ELSE LET reservations == described.value.Reservations
         IN  IF reservations = <<>>
             THEN HTTPException(404)
             ELSE convert_to_ec2_instance(reservations[1].Instances[1])

\* EC2Service.list_instances, given the outcome of its describe_instances call
EC2Service_list_instances(described) ==
    IF IsRaise(described, "ClientError")
    THEN HTTPException(400)
    ELSE LET flat == Flatten(described.value.Reservations)
             converted == [k \in DOMAIN flat |-> convert_to_ec2_instance(flat[k])]
         IN  IF \E k \in DOMAIN flat : ~IsReturn(converted[k])
             THEN converted[CHOOSE k \in DOMAIN flat :
                                /\ ~IsReturn(converted[k])
                                /\ \A j \in 1..(k - 1) : IsReturn(converted[j])]
             ELSE Return([k \in DOMAIN flat |-> converted[k].value])

----------------------------------------------------------------------------
(* The routes of the read path (app/routers/ec2.py).                       *)

\* Python truthiness of an Optional[str] query parameter
Truthy(s) == s # None /\ s # ""

\* the filters applied whenever the parameter is not None
list_instances_not_none(environment, instance_type, listed) ==
    IF ~IsReturn(listed)
    THEN listed
    ELSE LET a == IF environment # None
                  THEN SelectSeq(listed.value, LAMBDA i : i.environment = environment)
                  ELSE listed.value
             b == IF instance_type # None
                  THEN SelectSeq(a, LAMBDA i : i.instance_type = instance_type)
                  ELSE a
         IN  Return(b)

\* list_instances, given the outcome of service.list_instances()
list_instances(environment, instance_type, listed) ==
    IF ~IsReturn(listed)
    THEN listed
    ELSE LET a == IF Truthy(environment)
                  THEN SelectSeq(listed.value, LAMBDA i : i.environment = environment)
                  ELSE listed.value
             b == IF Truthy(instance_type)
                  THEN SelectSeq(a, LAMBDA i : i.instance_type = instance_type)
                  ELSE a
         IN  Return(b)

\* get_instance: the service's outcome, unchanged
get_instance(got) == got

RECURSIVE CountStates(_, _)
\* for instance in instances:
\*     status_count[instance.state] = status_count.get(instance.state, 0) + 1
CountStates(instances, status_count) ==
    IF instances = <<>>
    THEN status_count
    ELSE LET s == Head(instances).state
         IN  CountStates(Tail(instances),
                         (s :> (Get(status_count, s, 0) + 1)) @@ status_count)

\* the summary with every state seen counted once
get_status_summary_seen(listed) ==
    IF ~IsReturn(listed)
    THEN listed
    ELSE Return([total_instances  |-> Len(listed.value),
                 status_breakdown |->
                     [s \in {listed.value[k].state : k \in DOMAIN listed.value} |-> 1]])

\* get_status_summary, given the outcome of service.list_instances()
get_status_summary(listed) ==
    IF ~IsReturn(listed)
    THEN listed
    ELSE Return([total_instances  |-> Len(listed.value),
                 status_breakdown |-> CountStates(listed.value, EmptyDict)])

\* What the framework answers for a route's outcome: the route's success
\* status with the returned value, an HTTPException's own status, and
\* 500 Internal Server Error for any other exception.
Respond(outcome, success_status) ==
    IF IsReturn(outcome)
    THEN [status |-> success_status, body |-> outcome.value]
    ELSE IF IsRaise(outcome, "HTTPException")
         THEN [status |-> outcome.status_code, body |-> "detail"]
         ELSE [status |-> 500, body |-> "Internal Server Error"]

----------------------------------------------------------------------------
(* The read path on a provider listing: one request per behaviour.         *)

\* the most instance records the provider holds in the read-path runs
MaxRecords == 2

DirIds == {1, 2}

WellFormed ==
    {[InstanceId |-> i, InstanceType |-> t, State |-> [Name |-> s],
      LaunchTime |-> "2024-01-01T00:00:00"] @@ tg :
        i \in DirIds, t \in {"t2.micro", "t2.large"}, s \in {"running", "stopped"},
        tg \in Opt("Tags", {<<[Key |-> "Environment", Value |-> "prod"]>>})}

\* d without key
Drop(d, key) == [k \in DOMAIN d \ {key} |-> d[k]]

BaseRecord ==
    [InstanceId |-> 1, InstanceType |-> "t2.micro", State |-> [Name |-> "running"],
     LaunchTime |-> "2024-01-01T00:00:00"]

\* records that lack a required field
Malformed ==
    {Drop(BaseRecord, k) : k \in {"InstanceId", "InstanceType", "State", "LaunchTime"}}
        \cup {[BaseRecord EXCEPT !["State"] = EmptyDict]}

DirRecords == WellFormed \cup Malformed

RECURSIVE ListingsOf(_)
\* the listings of exactly n instance records, in non-empty reservations
ListingsOf(n) ==
    IF n = 0
    THEN {<<>>}
    ELSE UNION {{<<Reservation(r)>> \o rest :
                    r \in [1..k -> DirRecords], rest \in ListingsOf(n - k)} :
                k \in 1..n}

\* the listings of at most n instance records
Listings(n) == UNION {ListingsOf(m) : m \in 0..n}

\* query parameter values: absent, empty, a value in use, the same value in
\* another case
EnvFilters == {None, "", "prod", "Prod"}

TypeFilters == {None, "", "t2.micro"}

InitDirectory ==
    /\ provider \in Listings(MaxRecords)
    /\ calls = <<>>
    /\ reqs = <<>>
    /\ answer = NoAnswer

\* the outcomes the provider's describe call can have
Described(ids) == {ClientError, Return(DescribeInstances(provider, ids))}

Answered(op, environment, instance_type, id, described, response) ==
    [kind |-> "answered", op |-> op, environment |-> environment,
     instance_type |-> instance_type, id |-> id, described |-> described,
     status |-> response.status, body |-> response.body]

Call(r, api, ids) == [req |-> r, api |-> api, ids |-> ids]

\* GET /api/v1/instances/?environment=&instance_type=
ListRequest ==
    /\ answer = NoAnswer
    /\ \E environment \in EnvFilters, instance_type \in TypeFilters,
          described \in Described({}) :
            answer' = Answered("list", environment, instance_type, None, described,
                          Respond(list_instances(environment, instance_type,
                                      EC2Service_list_instances(described)), 200))
    /\ calls' = Append(calls, Call(0, "describe_instances", {}))
    /\ UNCHANGED <<provider, reqs>>

\* GET /api/v1/instances/{instance_id}
GetRequest ==
    /\ answer = NoAnswer
    /\ \E id \in DirIds :
        /\ \E described \in Described({id}) :
                answer' = Answered("get", None, None, id, described,
                              Respond(get_instance(EC2Service_get_instance(described)),
                                      200))
        /\ calls' = Append(calls, Call(0, "describe_instances", {id}))
    /\ UNCHANGED <<provider, reqs>>

\* GET /api/v1/instances/status/summary
SummaryRequest ==
    /\ answer = NoAnswer
    /\ \E described \in Described({}) :
            answer' = Answered("summary", None, None, None, described,
                          Respond(get_status_summary(
                                      EC2Service_list_instances(described)), 200))
    /\ calls' = Append(calls, Call(0, "describe_instances", {}))
    /\ UNCHANGED <<provider, reqs>>

NextDirectory == ListRequest \/ GetRequest \/ SummaryRequest

SpecDirectory == InitDirectory /\ [][NextDirectory]_vars

----------------------------------------------------------------------------
(* EC2Service and the routes: the lifecycle operations.  Each takes the    *)
(* outcome of its mutating provider call and, when that call returned, the *)
(* outcome of self.get_instance(instance_id).                              *)

\* try: mutate; return self.get_instance(id)  except ClientError: raise 400
AfterMutatingCall(mutated, got) ==
    IF IsRaise(mutated, "ClientError")
    THEN HTTPException(400)
    ELSE IF IsRaise(got, "ClientError") THEN HTTPException(400) ELSE got

\* start_instance with every failure of the try block turned into a 400
EC2Service_start_instance_all_400(mutated, got) ==
    IF IsRaise(mutated, "ClientError") \/ ~IsReturn(got)
    THEN HTTPException(400)
    ELSE got

EC2Service_start_instance(mutated, got) == AfterMutatingCall(mutated, got)

EC2Service_stop_instance(mutated, got) == AfterMutatingCall(mutated, got)

EC2Service_terminate_instance(mutated, got) == AfterMutatingCall(mutated, got)

\* EC2Service.create_instance: launched is the outcome of run_instances
EC2Service_create_instance(launched, got) == AfterMutatingCall(launched, got)

\* the routes start_instance, stop_instance, terminate_instance return the
\* service's outcome unchanged
start_instance(started) == started

stop_instance(stopped) == stopped

terminate_instance(terminated) == terminated

\* create_instance without its except clause
create_instance_uncaught(created) == created

\* the route create_instance: except Exception turns every failure into a 400
create_instance(created) ==
    IF IsReturn(created) THEN created ELSE HTTPException(400)

\* update_instance_tags answering as an unhandled NotImplementedError would
update_instance_tags_unhandled(instance_id, tags) == Raise("NotImplementedError")

\* the route update_instance_tags
update_instance_tags(instance_id, tags) == HTTPException(501)

\* the service operation an endpoint runs, then its route
Handle(op, mutated, got) ==
    CASE op = "start"     -> start_instance(EC2Service_start_instance(mutated, got))
      [] op = "stop"      -> stop_instance(EC2Service_stop_instance(mutated, got))
      [] op = "terminate" -> terminate_instance(
                                 EC2Service_terminate_instance(mutated, got))
      [] op = "create"    -> create_instance(EC2Service_create_instance(mutated, got))

\* the route's status_code: 201 for create, 200 otherwise
SuccessStatus(op) == IF op = "create" THEN 201 ELSE 200

\* the provider call an operation mutates with
MutatingApi(op) ==
    CASE op = "start"     -> "start_instances"
      [] op = "stop"      -> "stop_instances"
      [] op = "terminate" -> "terminate_instances"
      [] op = "create"    -> "run_instances"

\* a handler that re-reads whatever the mutating call did
NextStepAlwaysReread(mutated) == "reread"

\* where a handler goes after its mutating call: on to the re-read when the
\* call returned, out through the except clause when it raised
NextStep(mutated) == IF IsReturn(mutated) THEN "reread" ELSE "done"

----------------------------------------------------------------------------
(* The provider under the lifecycle operations.                            *)

\* the state a successful power call leaves an instance in
NewState(op, old) ==
    CASE op = "start"     -> IF old = "stopped" THEN "pending" ELSE old
      [] op = "stop"      -> IF old \in {"running", "pending"} THEN "stopping" ELSE old
      [] op = "terminate" -> IF old = "terminated" THEN old ELSE "shutting-down"

\* the state an instance moves to on its own
Settled(old) ==
    CASE old = "pending"       -> "running"
      [] old = "stopping"      -> "stopped"
      [] old = "shutting-down" -> "terminated"
      [] OTHER                 -> old

\* the provider's state names
PowerStates ==
    {"pending", "running", "stopping", "stopped", "shutting-down", "terminated"}

\* prov with the state of every instance id changed by the function f
WithState(prov, id, f) ==
    [k \in DOMAIN prov |->
        Reservation([j \in DOMAIN prov[k].Instances |->
            LET i == prov[k].Instances[j]
            IN  IF Matches(i, {id}) /\ "State" \in DOMAIN i
                THEN [i EXCEPT !["State"] = [Name |-> f[i["State"]["Name"]]]]
                ELSE i])]

Holds(prov, id) == \E k \in DOMAIN Flatten(prov) : Matches(Flatten(prov)[k], {id})

\* run_instances(..., MinCount=1, MaxCount=1, TagSpecifications=[Name, Environment])
NewInstance(id, request) ==
    [InstanceId |-> id, InstanceType |-> request.instance_type,
     State |-> [Name |-> "pending"],
     Tags |-> <<[Key |-> "Name", Value |-> request.name],
                [Key |-> "Environment", Value |-> request.environment]>>,
     LaunchTime |-> "2024-01-02T00:00:00"]

----------------------------------------------------------------------------
(* Concurrent requests to the lifecycle endpoints.                         *)

\* the number of requests in a run
NumRequests == 2

Reqs == 1..NumRequests

\* the ids the provider has given out before a run starts
ProviderIds == {1, 2}

\* the id requests name: the provider holds it in some runs and not in others
TargetIds == {1}

Instance(id, state) ==
    [InstanceId |-> id, InstanceType |-> "t2.micro", State |-> [Name |-> state],
     LaunchTime |-> "2024-01-01T00:00:00"]

InitProviders ==
    {<<Reservation(<<Instance(1, "running")>>)>>,
     <<Reservation(<<Instance(1, "stopped")>>)>>,
     <<Reservation(<<Instance(2, "running")>>)>>,
     <<Reservation(<<Drop(Instance(1, "stopped"), "LaunchTime")>>)>>}

\* EC2InstanceRequest bodies
CreateRequests ==
    {[name |-> "web", instance_type |-> "t2.micro", ami_id |-> "ami-1",
      key_pair_name |-> "key", security_group_id |-> "sg-1",
      environment |-> "development"]}

\* bodies of the tag update
TagBodies == {EmptyDict, "Name" :> "db"}

Idle ==
    [pc |-> "idle", op |-> None, id |-> 0, input |-> None, before |-> None,
     mutated |-> NoAnswer,
     described |-> NoAnswer, readAt |-> NoAnswer, status |-> 0, body |-> None]

Init ==
    /\ provider \in InitProviders
    /\ calls = <<>>
    /\ reqs = [r \in Reqs |-> Idle]
    /\ answer = NoAnswer

\* the state of instance id at the provider, None when it holds none
StateOf(prov, id) ==
    IF \E k \in DOMAIN Flatten(prov) :
           Matches(Flatten(prov)[k], {id}) /\ "State" \in DOMAIN Flatten(prov)[k]
    THEN LET k == CHOOSE k \in DOMAIN Flatten(prov) :
                     Matches(Flatten(prov)[k], {id}) /\ "State" \in DOMAIN Flatten(prov)[k]
         IN  Flatten(prov)[k]["State"]["Name"]
    ELSE None

\* the id the provider gives the next launched instance
NewId == Cardinality(ProviderIds) + 1
             + Cardinality({k \in DOMAIN calls : calls[k].api = "run_instances"})

Finished(r, op, mutated, got) ==
    LET response == Respond(Handle(op, mutated, got), SuccessStatus(op))
    IN  [reqs[r] EXCEPT !.pc = "done", !.mutated = mutated,
                        !.status = response.status, !.body = response.body]

\* POST /api/v1/instances/{instance_id}/tags: the handler raises at once
UpdateTags(r) ==
    /\ reqs[r].pc = "idle"
    /\ \A q \in 1..(r - 1) : reqs[q].pc # "idle"
    /\ \E id \in TargetIds, tags \in TagBodies :
        LET response == Respond(update_instance_tags(id, tags), 200)
        IN  reqs' = [reqs EXCEPT ![r] =
                        [@ EXCEPT !.pc = "done", !.op = "tags", !.id = id,
                                  !.input = tags,
                                  !.status = response.status, !.body = response.body]]
    /\ UNCHANGED <<provider, calls, answer>>

\* A start, stop or terminate request: the handler runs up to its
\* start_instances / stop_instances / terminate_instances(InstanceIds=[id])
\* call, which the provider refuses (ClientError) or, for an instance it
\* holds, carries out.
Mutate(r) ==
    /\ reqs[r].pc = "idle"
    /\ \A q \in 1..(r - 1) : reqs[q].pc # "idle"
    /\ \E op \in {"start", "stop", "terminate"}, id \in TargetIds :
        /\ calls' = Append(calls, Call(r, MutatingApi(op), {id}))
        /\ \/ /\ provider' = provider
              /\ reqs' = [reqs EXCEPT ![r] =
                     [Finished(r, op, ClientError, NoAnswer)
                         EXCEPT !.pc = NextStep(ClientError), !.op = op, !.id = id,
                                !.before = StateOf(provider, id)]]
           \/ /\ Holds(provider, id)
              /\ provider' = WithState(provider, id,
                                          [old \in PowerStates |-> NewState(op, old)])
              /\ reqs' = [reqs EXCEPT ![r] =
                     [@ EXCEPT !.pc = NextStep(Return(None)), !.op = op, !.id = id,
                               !.mutated = Return(None),
                               !.before = StateOf(provider, id)]]
    /\ UNCHANGED answer

\* A create request: the handler runs up to its run_instances call, which
\* the provider refuses or answers by launching one instance.
Launch(r) ==
    /\ reqs[r].pc = "idle"
    /\ \A q \in 1..(r - 1) : reqs[q].pc # "idle"
    /\ calls' = Append(calls, Call(r, "run_instances", {}))
    /\ \E request \in CreateRequests :
        \/ /\ provider' = provider
           /\ reqs' = [reqs EXCEPT ![r] =
                  [Finished(r, "create", ClientError, NoAnswer)
                      EXCEPT !.pc = NextStep(ClientError), !.op = "create",
                             !.input = request]]
        \/ /\ provider' = Append(provider, Reservation(<<NewInstance(NewId, request)>>))
           /\ reqs' = [reqs EXCEPT ![r] =
                  [@ EXCEPT !.pc = NextStep(Return(NewId)), !.op = "create",
                            !.input = request,
                            !.mutated = Return(NewId), !.id = NewId]]
    /\ UNCHANGED answer

\* a response kept on an object the requests share: the one another request
\* read, when there is one
ResponseOfShared(r, described) ==
    IF \E q \in Reqs \ {r} : IsReturn(reqs[q].described)
    THEN reqs[CHOOSE q \in Reqs \ {r} : IsReturn(reqs[q].described)].described
    ELSE described

\* the response of the describe call a handler works on: its own local
ResponseOf(r, described) == described

\* for the record: what the provider held for id when a describe call returned
ReadAt(prov, id, described) ==
    IF IsReturn(described)
    THEN Return(SelectSeq(Flatten(prov), LAMBDA i : Matches(i, {id})))
    ELSE NoAnswer

\* The re-read: get_instance's describe_instances(InstanceIds=[id]) call, then
\* the translation and the handler's return or raise, which touch nothing
\* shared.
Reread(r) ==
    /\ reqs[r].pc = "reread"
    /\ calls' = Append(calls, Call(r, "describe_instances", {reqs[r].id}))
    /\ \E described \in Described({reqs[r].id}) :
            reqs' = [reqs EXCEPT ![r] =
                        [Finished(r, reqs[r].op, reqs[r].mutated,
                                  EC2Service_get_instance(ResponseOf(r, described)))
                            EXCEPT !.described = described,
                                   !.readAt = ReadAt(provider, reqs[r].id, described)]]
    /\ UNCHANGED <<provider, answer>>

\* the provider moves an instance on: pending to running, stopping to
\* stopped, shutting-down to terminated
ProviderSettles ==
    /\ \E id \in 1..(Cardinality(ProviderIds) + NumRequests) :
        /\ StateOf(provider, id) \in {"pending", "stopping", "shutting-down"}
        /\ provider' = WithState(provider, id, [old \in PowerStates |-> Settled(old)])
    /\ UNCHANGED <<calls, reqs, answer>>

\* the provider forgets a terminated instance
ProviderForgets ==
    /\ \E k \in DOMAIN provider :
        /\ "State" \in DOMAIN provider[k].Instances[1]
        /\ provider[k].Instances[1]["State"]["Name"] = "terminated"
        /\ provider' = [j \in 1..(Len(provider) - 1) |->
                            IF j < k THEN provider[j] ELSE provider[j + 1]]
    /\ UNCHANGED <<calls, reqs, answer>>

Next ==
    \/ \E r \in Reqs : UpdateTags(r)
    \/ \E r \in Reqs : Mutate(r)
    \/ \E r \in Reqs : Launch(r)
    \/ \E r \in Reqs : Reread(r)
    \/ ProviderSettles
    \/ ProviderForgets

Spec == Init /\ [][Next]_vars

----------------------------------------------------------------------------
(* Claims about the translator (SpecTranslate) and the read path           *)
(* (SpecDirectory).                                                        *)

IsAnswer(op) == answer.kind = "answered" /\ answer.op = op

\* the answer of the list route without filters, for a describe outcome
Unfiltered(described) ==
    Respond(list_instances(None, None, EC2Service_list_instances(described)), 200)

\* the answer of the list route with the given filters, for a describe outcome
Filtered(environment, instance_type, described) ==
    Respond(list_instances(environment, instance_type,
                EC2Service_list_instances(described)), 200)

\* an absent or empty filter constrains nothing; any other must be equal
Kept(i, environment, instance_type) ==
    /\ (environment \in {None, ""} \/ i.environment = environment)
    /\ (instance_type \in {None, ""} \/ i.instance_type = instance_type)

RECURSIVE KeptOf(_, _, _)
\* the entries of instances that are kept, in their order
KeptOf(instances, environment, instance_type) ==
    IF instances = <<>>
    THEN <<>>
    ELSE (IF Kept(Head(instances), environment, instance_type)
          THEN <<Head(instances)>>
          ELSE <<>>) \o KeptOf(Tail(instances), environment, instance_type)

\* C1: the list route answers with exactly the entries of the unfiltered
\* translated listing that equal every non-empty filter, in provider order
\* (and fails exactly when the unfiltered listing fails); with both filters
\* it is the intersection of the two single-filter answers.
C1_FilterIsSubsequence ==
    IsAnswer("list") =>
        LET full     == Unfiltered(answer.described)
            envOnly  == Filtered(answer.environment, None, answer.described)
            typeOnly == Filtered(None, answer.instance_type, answer.described)
        IN  /\ answer.status = full.status
            /\ full.status = 200 =>
                /\ answer.body = KeptOf(full.body, answer.environment,
                                        answer.instance_type)
                /\ answer.body =
                       SelectSeq(envOnly.body,
                           LAMBDA i : \E k \in DOMAIN typeOnly.body :
                                          typeOnly.body[k] = i)

\* both filters given, some entry kept and some entry dropped
C1_Witness ==
    /\ IsAnswer("list")
    /\ answer.status = 200
    /\ answer.environment = "prod"
    /\ answer.instance_type = "t2.micro"
    /\ answer.body # <<>>
    /\ Len(answer.body) < Len(Unfiltered(answer.described).body)

\* the status the route gives a failed provider read
ReadFailureStatus(op) ==
    IF op = "list"
    THEN Respond(list_instances(None, None, EC2Service_list_instances(ClientError)),
                 200).status
    ELSE Respond(get_instance(EC2Service_get_instance(ClientError)), 200).status

\* the records a describe outcome hands to the translator
Translated(op, described) ==
    IF op = "list"
    THEN {Flatten(described.value.Reservations)[k] :
             k \in DOMAIN Flatten(described.value.Reservations)}
    ELSE IF described.value.Reservations = <<>>
         THEN {}
         ELSE {described.value.Reservations[1].Instances[1]}

\* C2: a list or get call whose provider record lacks a required field
\* is answered as a provider read failure is (same status).
C2_MalformedIsQueryFailure ==
    (/\ answer.kind = "answered"
     /\ answer.op \in {"list", "get"}
     /\ IsReturn(answer.described)
     /\ \E r \in Translated(answer.op, answer.described) : ~RequiredPresent(r))
        => answer.status = ReadFailureStatus(answer.op)

RECURSIVE SumOver(_, _)
SumOver(f, keys) ==
    IF keys = {}
    THEN 0
    ELSE LET k == CHOOSE x \in keys : TRUE
         IN  f[k] + SumOver(f, keys \ {k})

\* C8: the summary's total is the length of the unfiltered listing; its
\* breakdown has exactly the states that occur as keys, each with the number
\* of instances in that state, and the counts sum to the total.
C8_SummaryCounts ==
    IsAnswer("summary") =>
        LET full == Unfiltered(answer.described)
        IN  /\ answer.status = full.status
            /\ full.status = 200 =>
                LET breakdown == answer.body.status_breakdown
                    states == {full.body[k].state : k \in DOMAIN full.body}
                IN  /\ answer.body.total_instances = Len(full.body)
                    /\ DOMAIN breakdown = states
                    /\ \A s \in states :
                           /\ breakdown[s] =
                                  Cardinality({k \in DOMAIN full.body :
                                                  full.body[k].state = s})
                           /\ breakdown[s] > 0
                    /\ SumOver(breakdown, DOMAIN breakdown) =
                           answer.body.total_instances

\* two instances in one state: a count above one
C8_Witness ==
    /\ IsAnswer("summary")
    /\ answer.status = 200
    /\ answer.body.total_instances = 2
    /\ DOMAIN answer.body.status_breakdown = {"running"}
    /\ answer.body.status_breakdown["running"] = 2

\* the value a tag list holds for a key, "" when no tag has the key
TagValue(aws_instance, key) ==
    IF "Tags" \in DOMAIN aws_instance
          /\ \E k \in DOMAIN aws_instance["Tags"] : aws_instance["Tags"][k].Key = key
    THEN aws_instance["Tags"][CHOOSE k \in DOMAIN aws_instance["Tags"] :
                                 aws_instance["Tags"][k].Key = key].Value
    ELSE ""

\* aws_instance with only its Name and Environment tags
OnlyReadTags(aws_instance) ==
    IF "Tags" \in DOMAIN aws_instance
    THEN [aws_instance EXCEPT !["Tags"] =
             SelectSeq(@, LAMBDA t : t.Key \in {"Name", "Environment"})]
    ELSE aws_instance

\* C9: a record with the required fields translates; each of public_ip,
\* private_ip, name, environment is the source value and is "" (never None)
\* when the source key is absent or its value empty; the tags other than Name
\* and Environment change nothing; the state name is copied.
C9_OptionalDefaults ==
    LET raw == provider[1].Instances[1]
    IN  (answer # NoAnswer /\ RequiredPresent(raw)) =>
            /\ IsReturn(answer)
            /\ answer.value.public_ip =
                   (IF "PublicIpAddress" \in DOMAIN raw THEN raw["PublicIpAddress"] ELSE "")
            /\ answer.value.private_ip =
                   (IF "PrivateIpAddress" \in DOMAIN raw THEN raw["PrivateIpAddress"] ELSE "")
            /\ answer.value.name = TagValue(raw, "Name")
            /\ answer.value.environment = TagValue(raw, "Environment")
            /\ None \notin {answer.value.public_ip, answer.value.private_ip,
                             answer.value.name, answer.value.environment}
            /\ answer = convert_to_ec2_instance(OnlyReadTags(raw))
            /\ answer.value.state = raw["State"]["Name"]

\* no address key, a tag "name" in another case and no Name tag: all default
C9_Witness ==
    LET raw == provider[1].Instances[1]
    IN  /\ answer # NoAnswer
        /\ IsReturn(answer)
        /\ "PublicIpAddress" \notin DOMAIN raw
        /\ "Tags" \in DOMAIN raw
        /\ raw["Tags"] = <<[Key |-> "name", Value |-> "web"],
                            [Key |-> "Environment", Value |-> ""]>>
        /\ answer.value.public_ip = ""
        /\ answer.value.name = ""
        /\ answer.value.environment = ""

----------------------------------------------------------------------------
(* Claims about the lifecycle endpoints (Spec).                            *)

\* the provider calls request r has issued, in order
CallsOf(r) == SelectSeq(calls, LAMBDA c : c.req = r)

PowerOps == {"start", "stop", "terminate"}

MutatingCallOf(r) == Call(r, MutatingApi(reqs[r].op), {reqs[r].id})

DescribeCallOf(r) == Call(r, "describe_instances", {reqs[r].id})

\* the describe call of r's re-read failed or returned no reservation
RereadFoundNothing(r) ==
    \/ IsRaise(reqs[r].described, "ClientError")
    \/ IsReturn(reqs[r].described) /\ reqs[r].described.value.Reservations = <<>>

C5_OneMutationThenOneReread ==
    \A r \in Reqs :
        reqs[r].op \in PowerOps =>
            /\ IsRaise(reqs[r].mutated, "ClientError") =>
                   (reqs[r].pc = "done" /\ CallsOf(r) = <<MutatingCallOf(r)>>)
            /\ IsReturn(reqs[r].mutated) =>
                   \/ reqs[r].pc = "reread" /\ CallsOf(r) = <<MutatingCallOf(r)>>
                   \/ /\ reqs[r].pc = "done"
                      /\ CallsOf(r) = <<MutatingCallOf(r), DescribeCallOf(r)>>
            /\ reqs[r].mutated # NoAnswer

\* start on an instance that was running: forwarded, then re-read
C5_Witness ==
    \E r \in Reqs :
        /\ reqs[r].op = "start"
        /\ reqs[r].before = "running"
        /\ reqs[r].pc = "done"
        /\ reqs[r].status = 200
        /\ CallsOf(r) = <<MutatingCallOf(r), DescribeCallOf(r)>>

\* C6: the Instance a successful start, stop or terminate returns is the
\* translation of the record the provider held for the id when the
\* request's own describe call returned, and that call is the request's only
\* read.
C6_ReturnsItsOwnReread ==
    \A r \in Reqs :
        (reqs[r].op \in PowerOps /\ reqs[r].pc = "done" /\ reqs[r].status = 200) =>
            /\ IsReturn(reqs[r].readAt)
            /\ reqs[r].readAt.value # <<>>
            /\ Return(reqs[r].body) = convert_to_ec2_instance(reqs[r].readAt.value[1])
            /\ Len(SelectSeq(CallsOf(r), LAMBDA c : c.api = "describe_instances")) = 1

\* two requests on one id, interleaved, that returned different states
C6_Witness ==
    \E r, q \in Reqs :
        /\ r # q
        /\ reqs[r].op = "stop" /\ reqs[q].op = "start"
        /\ reqs[r].id = reqs[q].id
        /\ reqs[r].pc = "done" /\ reqs[q].pc = "done"
        /\ reqs[r].status = 200 /\ reqs[q].status = 200
        /\ reqs[r].body.state # reqs[q].body.state
        /\ \E i, j, k \in DOMAIN calls :
               /\ i < j /\ j < k
               /\ calls[i] = MutatingCallOf(r)
               /\ calls[j] = MutatingCallOf(q)
               /\ calls[k] = DescribeCallOf(r)

C10_CreateNoRollback ==
    \A r \in Reqs :
        reqs[r].op = "create" =>
            /\ CallsOf(r) \in {<<Call(r, "run_instances", {})>>,
                                <<Call(r, "run_instances", {}), DescribeCallOf(r)>>}
            /\ (reqs[r].pc = "done" /\ reqs[r].status # 201) => reqs[r].status = 400
            /\ IsReturn(reqs[r].mutated) => Holds(provider, reqs[r].id)

\* a create answered 400 after a successful launch: the instance is there
C10_Witness ==
    \E r \in Reqs :
        /\ reqs[r].op = "create"
        /\ reqs[r].pc = "done"
        /\ reqs[r].status = 400
        /\ IsReturn(reqs[r].mutated)
        /\ Holds(provider, reqs[r].id)
        /\ Len(Flatten(provider)) = 2

====
